---- MODULE Spec2Model ----
(***************************************************************************)
(* Model of the mini_tester differential shell harness (package main):     *)
(* loadTestCases, NewShellTester, ShellTester.runCommand,                   *)
(* ShellTester.compareOutput, ShellTester.generateDiff and main.            *)
(*                                                                         *)
(* Strings whose contents the program inspects (captured streams, expected *)
(* outputs, diffs) are sequences of one-character strings; strings that    *)
(* are only compared or used as map keys (commands, descriptions) stay     *)
(* TLA+ strings.                                                           *)
(***************************************************************************)
EXTENDS Integers, Sequences, FiniteSets

\* Longest suite of plain test cases loaded from the test-case file.
MaxTests == 2

Shells == {"bash", "minishell"}

\* Command and description texts of the test-case file.
Commands == {"echo hello", "exit 3"}
Descriptions == {"d1", "d2"}
CommandDescriptions ==
    {<<"echo hello", "d1">>, <<"echo hello", "d2">>, <<"exit 3", "d1">>}

\* unicode.IsSpace characters that strings.TrimSpace removes.
Whitespace == {" ", "\n", "\t"}

\* What a shell writes to a stream: a body, bare or with leading and
\* trailing white space around it.
Bodies == {<<>>, <<"h">>}
RawStreams == Bodies \cup {<<" ">> \o b \o <<"\n">> : b \in Bodies}

\* Exit codes a shell reports through exec.ExitError (0 when Wait returns nil).
ExitCodes == {0, 3}

\* What a shell run produces: raw stdout, raw stderr and exit code.  A run
\* prints a body on at most one stream, or exits non-zero silently.
ShellRuns ==
    {r \in [out : RawStreams, err : RawStreams, rc : ExitCodes] :
        Cardinality({k \in {"out", "err"} : \E x \in 1..Len(r[k]) : r[k][x] = "h"})
            + (IF r.rc # 0 THEN 1 ELSE 0) <= 1}

\* err.Error() of a failed StdinPipe, Start or Write.
ErrMsgs == {<<"E">>}

\* expected_output / expected_error / expected_code of the test-case file.
ExpectedOutputs == {<<>>, <<"h">>}
ExpectedErrors == {<<>>, <<"h">>}
ExpectedCodes == {0, 3}

\* type TestCase
TestCase(c, d, eo, ee, ec) ==
    [Command |-> c, Description |-> d, ExpectedOutput |-> eo,
     ExpectedError |-> ee, ExpectedCode |-> ec]

\* Test cases that leave every optional field out (omitempty zero values).
PlainTests == {TestCase(cd[1], cd[2], <<>>, <<>>, 0) : cd \in CommandDescriptions}

\* Test cases that state expectations.
ExpectTests ==
    {TestCase("echo hello", "d1", eo, ee, ec) :
        eo \in ExpectedOutputs, ee \in ExpectedErrors, ec \in ExpectedCodes}

\* Two test cases with the same command, one of them stating expectations.
DuplicateSuites ==
    LET e == TestCase("echo hello", "d1", <<"h">>, <<"h">>, 3)
        p == TestCase("echo hello", "d2", <<>>, <<>>, 0)
    IN  {<<e, p>>, <<p, e>>}

\* Contents of a well-formed test-case file: its "test_cases" array.
Suites ==
    UNION {[1..n -> PlainTests] : n \in 0..MaxTests}
        \cup {<<t>> : t \in ExpectTests}
        \cup DuplicateSuites

\* Suites of the stream-level specification: one plain test case.
StreamSuites == {<<TestCase("echo hello", "d1", <<>>, <<>>, 0)>>}

----------------------------------------------------------------------------
\* strings.TrimSpace

RECURSIVE TrimLeft(_)
TrimLeft(s) ==
    IF s = <<>> THEN s
    ELSE IF Head(s) \in Whitespace THEN TrimLeft(Tail(s)) ELSE s

RECURSIVE TrimRight(_)
TrimRight(s) ==
    IF s = <<>> THEN s
    ELSE IF s[Len(s)] \in Whitespace THEN TrimRight(SubSeq(s, 1, Len(s) - 1))
    ELSE s

\* Variant: the trailing white space is kept.
TrimSpaceLeftOnly(s) == TrimLeft(s)

TrimSpace(s) == TrimRight(TrimLeft(s))

----------------------------------------------------------------------------
\* diffmatchpatch: DiffMain(text1, text2, false) and DiffPrettyText.
\* A diff is a sequence of <<op, text>> pairs.

RECURSIVE CommonPrefixLen(_, _)
CommonPrefixLen(a, b) ==
    IF a = <<>> \/ b = <<>> \/ Head(a) # Head(b) THEN 0
    ELSE 1 + CommonPrefixLen(Tail(a), Tail(b))

RECURSIVE CommonSuffixLen(_, _)
CommonSuffixLen(a, b) ==
    IF a = <<>> \/ b = <<>> \/ a[Len(a)] # b[Len(b)] THEN 0
    ELSE 1 + CommonSuffixLen(SubSeq(a, 1, Len(a) - 1), SubSeq(b, 1, Len(b) - 1))

\* Edits of the texts left after the common prefix and suffix are removed.
\* The library also looks for equal spans inside two non-empty middles; the
\* stream bodies here are too short to have any.
DiffCompute(t1, t2) ==
    IF t1 = <<>> /\ t2 = <<>> THEN <<>>
    ELSE IF t1 = <<>> THEN << <<"insert", t2>> >>
    ELSE IF t2 = <<>> THEN << <<"delete", t1>> >>
    ELSE << <<"delete", t1>>, <<"insert", t2>> >>

DiffMain(text1, text2) ==
    IF text1 = text2
    THEN IF text1 = <<>> THEN <<>> ELSE << <<"equal", text1>> >>
    ELSE LET p == CommonPrefixLen(text1, text2)
             a == SubSeq(text1, p + 1, Len(text1))
             b == SubSeq(text2, p + 1, Len(text2))
             s == CommonSuffixLen(a, b)
             ma == SubSeq(a, 1, Len(a) - s)
             mb == SubSeq(b, 1, Len(b) - s)
             pre == IF p = 0 THEN <<>> ELSE << <<"equal", SubSeq(text1, 1, p)>> >>
             suf == IF s = 0 THEN <<>>
                    ELSE << <<"equal", SubSeq(a, Len(a) - s + 1, Len(a))>> >>
         IN  pre \o DiffCompute(ma, mb) \o suf

\* Terminal colour escapes DiffPrettyText wraps insertions and deletions in.
InsertMark == "ESC[32m"
DeleteMark == "ESC[31m"
ResetMark == "ESC[0m"

RECURSIVE DiffPrettyText(_)
DiffPrettyText(diffs) ==
    IF diffs = <<>> THEN <<>>
    ELSE LET d == Head(diffs)
             piece == IF d[1] = "insert" THEN <<InsertMark>> \o d[2] \o <<ResetMark>>
                      ELSE IF d[1] = "delete" THEN <<DeleteMark>> \o d[2] \o <<ResetMark>>
                      ELSE d[2]
         IN  piece \o DiffPrettyText(Tail(diffs))

----------------------------------------------------------------------------
\* Values of the harness.

\* What runCommand returns: (stdout, stderr, exit code).
Outcome(o, e, rc) == [out |-> o, err |-> e, rc |-> rc]

NoOutcome == Outcome(<<>>, <<>>, 0)

\* Variant: the error return with exit code 0.
FailureOutcomeZero(msg) == Outcome(<<>>, msg, 0)

\* return "", err.Error(), 1
FailureOutcome(msg) == Outcome(<<>>, msg, 1)

\* return strings.TrimSpace(stdout.String()), strings.TrimSpace(stderr.String()), exitCode
WaitOutcome(rawOut, rawErr, code) == Outcome(TrimSpace(rawOut), TrimSpace(rawErr), code)

\* Variant: an empty expectation is compared like any other.
ExpectedTextMatchStrict(expected, actual) == actual = expected

\* tc.ExpectedOutput == "" || miniOut == tc.ExpectedOutput (likewise the error)
ExpectedTextMatch(expected, actual) == expected = <<>> \/ actual = expected

\* tc.ExpectedCode == 0 || miniRC == tc.ExpectedCode
ExpectedCodeMatch(expected, actual) == expected = 0 \/ actual = expected

\* The TestResult literal of compareOutput.
MakeResult(tc, b, m) ==
    [Description |-> tc.Description,
     BashOutput |-> b.out,
     MinishellOutput |-> m.out,
     BashError |-> b.err,
     MinishellError |-> m.err,
     BashReturnCode |-> b.rc,
     MinishellReturnCode |-> m.rc,
     OutputMatch |-> b.out = m.out,
     ErrorMatch |-> b.err = m.err,
     ReturnCodeMatch |-> b.rc = m.rc,
     ExpectedOutputMatch |-> ExpectedTextMatch(tc.ExpectedOutput, m.out),
     ExpectedErrorMatch |-> ExpectedTextMatch(tc.ExpectedError, m.err),
     ExpectedCodeMatch |-> ExpectedCodeMatch(tc.ExpectedCode, m.rc)]

\* Variant: an existing entry is kept.
MapPutKeepFirst(m, k, v) ==
    [x \in DOMAIN m \cup {k} |-> IF x \in DOMAIN m THEN m[x] ELSE v]

\* results[tc.Command] = TestResult{...}
MapPut(m, k, v) ==
    [x \in DOMAIN m \cup {k} |-> IF x = k THEN v ELSE m[x]]

EmptyMap == [x \in {} |-> NoOutcome]

\* Variants: the condition without the return code, and with stdout only.
NeedsDiffOutputOnly(r) == ~r.OutputMatch

NeedsDiffStreamsOnly(r) == ~r.OutputMatch \/ ~r.ErrorMatch

\* if !result.OutputMatch || !result.ErrorMatch || !result.ReturnCodeMatch
NeedsDiff(r) == ~r.OutputMatch \/ ~r.ErrorMatch \/ ~r.ReturnCodeMatch

\* generateDiff
GenerateDiff(res) ==
    [c \in {x \in DOMAIN res : NeedsDiff(res[x])} |->
        DiffPrettyText(DiffMain(res[c].BashOutput, res[c].MinishellOutput))]

\* Variant: the expected-* flags count too.
CountsAsPassedWithExpected(r) ==
    /\ r.OutputMatch /\ r.ErrorMatch /\ r.ReturnCodeMatch
    /\ r.ExpectedOutputMatch /\ r.ExpectedErrorMatch /\ r.ExpectedCodeMatch

\* if r.OutputMatch && r.ErrorMatch && r.ReturnCodeMatch { passedTests++ }
CountsAsPassed(r) == r.OutputMatch /\ r.ErrorMatch /\ r.ReturnCodeMatch

PassedTests(res) == Cardinality({c \in DOMAIN res : CountsAsPassed(res[c])})

\* status := "PASS"; if !result.OutputMatch || ... { status = "FAIL" }
StatusOf(r) ==
    IF ~r.OutputMatch \/ ~r.ErrorMatch \/ ~r.ReturnCodeMatch THEN "FAIL" ELSE "PASS"

\* Variant: only the reference shell's path is looked up.
ShellTesterErrorBashOnly(ex) ==
    IF ~ex["bash"] THEN "bash executable not found" ELSE ""

\* NewShellTester: the error it returns, "" for nil.  ex[sh] is FALSE when
\* os.Stat fails with a not-exist error; any other Stat result lets the
\* constructor succeed.
ShellTesterError(ex) ==
    IF ~ex["bash"] THEN "bash executable not found"
    ELSE IF ~ex["minishell"] THEN "minishell executable not found"
    ELSE ""

\* Variant: a failed write is ignored.
ExitAfterSaveLenient(writeOk) == 0

\* os.Exit(1) after a failed os.WriteFile, a normal return of main otherwise.
ExitAfterSave(writeOk) == IF writeOk THEN 0 ELSE 1

----------------------------------------------------------------------------
\* State.

VARIABLES
    argv,         \* command line: "invalid", "help", "default" (no -output) or "output"
    file,         \* the test-case file: [status, tests]
    exists,       \* exists[sh]: os.Stat does not report the shell's path missing
    pc,           \* position of main
    testCases,    \* main: testCases
    i,            \* compareOutput: index of the test case being processed
    cur,          \* the shell the current runCommand call runs
    ret,          \* compareOutput: (out, err, rc) returned for each shell
    openPipes,    \* stdin pipes created and not closed
    unreaped,     \* subprocesses started and not waited for
    nRuns,        \* calls of runCommand so far
    results,      \* compareOutput: results
    differences,  \* main: differences
    totalTests,   \* main: totalTests
    passedTests,  \* main: passedTests
    console,      \* what main printed on standard output
    saved,        \* the report written to -output: [written, report]
    writeFailed,  \* os.WriteFile returned an error
    exitStatus,   \* the harness's exit status once pc = "exited"
    keepRaw,      \* whether the buffers of a finished run are retained in captured
    captured      \* captured[sh]: the raw stdout/stderr buffers of the last run

vars ==
    <<argv, file, exists, pc, testCases, i, cur, ret, openPipes, unreaped, nRuns,
      results, differences, totalTests, passedTests, console, saved, writeFailed,
      exitStatus, keepRaw, captured>>

Args == {"invalid", "help", "default", "output"}

FileOk(tests) == [status |-> "ok", tests |-> tests]

Files(suites) ==
    {FileOk(s) : s \in suites}
        \cup {[status |-> st, tests |-> <<>>] : st \in {"unreadable", "malformed"}}

NoCapture == [taken |-> FALSE, out |-> <<>>, err |-> <<>>]

NoConsole == [summary |-> <<0, 0>>, status |-> {}, diffHeader |-> FALSE, blocks |-> {}]

NoReport ==
    [Summary |-> [TotalTests |-> 0, PassedTests |-> 0, FailedTests |-> 0],
     Results |-> EmptyMap, Differences |-> EmptyMap]

InitWith(suites, keep) ==
    /\ argv \in Args
    /\ file \in Files(suites)
    /\ exists \in [Shells -> BOOLEAN]
    /\ pc = "flags"
    /\ testCases = <<>>
    /\ i = 1
    /\ cur = "bash"
    /\ ret = [sh \in Shells |-> NoOutcome]
    /\ openPipes = 0
    /\ unreaped = 0
    /\ nRuns = 0
    /\ results = EmptyMap
    /\ differences = EmptyMap
    /\ totalTests = 0
    /\ passedTests = 0
    /\ console = NoConsole
    /\ saved = [written |-> FALSE, report |-> NoReport]
    /\ writeFailed = FALSE
    /\ exitStatus = 0
    /\ keepRaw = keep
    /\ captured = [sh \in Shells |-> NoCapture]

Init == InitWith(Suites, FALSE)

InitStreams == InitWith(StreamSuites, TRUE)

----------------------------------------------------------------------------
\* main, up to compareOutput.

Exit(status) ==
    /\ pc' = "exited"
    /\ exitStatus' = status

\* flag.Parse() on the default (ExitOnError) flag set: a bad flag exits 2,
\* -h / -help exits 0.
ParseFlags ==
    /\ pc = "flags"
    /\ IF argv = "invalid" THEN Exit(2)
       ELSE IF argv = "help" THEN Exit(0)
       ELSE pc' = "load" /\ UNCHANGED exitStatus
    /\ UNCHANGED <<argv, file, exists, testCases, i, cur, ret, openPipes, unreaped,
                   nRuns, results, differences, totalTests, passedTests, console,
                   saved, writeFailed, keepRaw, captured>>

\* testCases, err := loadTestCases(*testsPath); if err != nil { os.Exit(1) }
LoadTestCases ==
    /\ pc = "load"
    /\ IF file.status = "ok"
       THEN /\ testCases' = file.tests
            /\ pc' = "init"
            /\ UNCHANGED exitStatus
       ELSE /\ Exit(1)
            /\ UNCHANGED testCases
    /\ UNCHANGED <<argv, file, exists, i, cur, ret, openPipes, unreaped, nRuns,
                   results, differences, totalTests, passedTests, console, saved,
                   writeFailed, keepRaw, captured>>

\* tester, err := NewShellTester(...); if err != nil { os.Exit(1) }
NewShellTester ==
    /\ pc = "init"
    /\ IF ShellTesterError(exists) = ""
       THEN pc' = "loop" /\ UNCHANGED exitStatus
       ELSE Exit(1)
    /\ UNCHANGED <<argv, file, exists, testCases, i, cur, ret, openPipes, unreaped,
                   nRuns, results, differences, totalTests, passedTests, console,
                   saved, writeFailed, keepRaw, captured>>

----------------------------------------------------------------------------
\* compareOutput and runCommand.

\* for _, tc := range testCases: the call runCommand(st.bashPath, tc.Command)
NextTestCase ==
    /\ pc = "loop"
    /\ i <= Len(testCases)
    /\ pc' = "pipe"
    /\ cur' = "bash"
    /\ nRuns' = nRuns + 1
    /\ captured' = [sh \in Shells |-> NoCapture]
    /\ UNCHANGED <<argv, file, exists, testCases, i, ret, openPipes, unreaped,
                   results, differences, totalTests, passedTests, console, saved,
                   writeFailed, exitStatus, keepRaw>>

\* runCommand returns o.  The reference run is followed by the call
\* runCommand(st.minishellPath, tc.Command); the implementation run by
\* results[tc.Command] = TestResult{...} and the next iteration.
Return(o) ==
    IF cur = "bash"
    THEN /\ ret' = [ret EXCEPT !["bash"] = o]
         /\ cur' = "minishell"
         /\ pc' = "pipe"
         /\ nRuns' = nRuns + 1
         /\ UNCHANGED <<results, i>>
    ELSE /\ results' = MapPut(results, testCases[i].Command,
                              MakeResult(testCases[i], ret["bash"], o))
         /\ i' = i + 1
         /\ ret' = [sh \in Shells |-> NoOutcome]
         /\ pc' = "loop"
         /\ UNCHANGED <<cur, nRuns>>

Frame ==
    UNCHANGED <<argv, file, exists, testCases, differences, totalTests, passedTests,
                console, saved, writeFailed, exitStatus, keepRaw>>

\* stdin, err := cmd.StdinPipe()
StdinPipe ==
    /\ pc = "pipe"
    /\ pc' = "start"
    /\ openPipes' = openPipes + 1
    /\ UNCHANGED <<cur, ret, unreaped, nRuns, captured, results, i>>
    /\ Frame

StdinPipeFails ==
    /\ pc = "pipe"
    /\ \E msg \in ErrMsgs : Return(FailureOutcome(msg))
    /\ UNCHANGED <<openPipes, unreaped, captured>>
    /\ Frame

\* cmd.Start()
Start ==
    /\ pc = "start"
    /\ pc' = "write"
    /\ unreaped' = unreaped + 1
    /\ UNCHANGED <<cur, ret, openPipes, nRuns, captured, results, i>>
    /\ Frame

\* A failed Start closes the descriptors it was given, the pipe included.
StartFails ==
    /\ pc = "start"
    /\ \E msg \in ErrMsgs : Return(FailureOutcome(msg))
    /\ openPipes' = openPipes - 1
    /\ UNCHANGED <<unreaped, captured>>
    /\ Frame

\* stdin.Write([]byte(command + "\nexit\n"))
Write ==
    /\ pc = "write"
    /\ pc' = "close"
    /\ UNCHANGED <<cur, ret, openPipes, unreaped, nRuns, captured, results, i>>
    /\ Frame

\* if err != nil { return "", err.Error(), 1 }: neither Close nor Wait runs.
WriteFails ==
    /\ pc = "write"
    /\ \E msg \in ErrMsgs : Return(FailureOutcome(msg))
    /\ UNCHANGED <<openPipes, unreaped, captured>>
    /\ Frame

\* _ = stdin.Close()
Close ==
    /\ pc = "close"
    /\ pc' = "wait"
    /\ openPipes' = openPipes - 1
    /\ UNCHANGED <<cur, ret, unreaped, nRuns, captured, results, i>>
    /\ Frame

\* err = cmd.Wait(); exitCode from exec.ExitError; return of the trimmed streams
Wait ==
    /\ pc = "wait"
    /\ \E r \in ShellRuns :
          /\ Return(WaitOutcome(r.out, r.err, r.rc))
          /\ captured' =
                IF keepRaw
                THEN [captured EXCEPT ![cur] = [taken |-> TRUE, out |-> r.out, err |-> r.err]]
                ELSE captured
    /\ unreaped' = unreaped - 1
    /\ UNCHANGED openPipes
    /\ Frame

----------------------------------------------------------------------------
\* main, after compareOutput.

\* The console output of main: the summary line, one status block per
\* result and, if len(differences) > 0, the detailed differences.
Printed(res, diffs, passed, total) ==
    [summary |-> <<passed, total>>,
     status |-> {[Test |-> res[c].Description, Command |-> c, Status |-> StatusOf(res[c])] :
                    c \in DOMAIN res},
     diffHeader |-> DOMAIN diffs # {},
     blocks |-> {[Test |-> res[c].Description, Command |-> c, Diff |-> diffs[c]] :
                    c \in DOMAIN diffs}]

\* outputData of main
OutputData(res, diffs, total, passed) ==
    [Summary |-> [TotalTests |-> total, PassedTests |-> passed,
                  FailedTests |-> total - passed],
     Results |-> res, Differences |-> diffs]

\* return results; differences := tester.generateDiff(results); the statistics
\* and the console report
Report ==
    /\ pc = "loop"
    /\ i > Len(testCases)
    /\ differences' = GenerateDiff(results)
    /\ totalTests' = Cardinality(DOMAIN results)
    /\ passedTests' = PassedTests(results)
    /\ console' = Printed(results, differences', passedTests', totalTests')

\* main without -output: the report is printed and main returns
ReportOnly ==
    /\ argv = "default"
    /\ Report
    /\ Exit(0)
    /\ UNCHANGED <<argv, file, exists, testCases, i, cur, ret, openPipes, unreaped,
                   nRuns, results, saved, writeFailed, keepRaw, captured>>

\* main with -output: the report is printed, then json.MarshalIndent (which
\* cannot fail on these types) and os.WriteFile
ReportAndSave ==
    /\ argv = "output"
    /\ Report
    /\ \E writeOk \in BOOLEAN :
          /\ saved' =
                IF writeOk
                THEN [written |-> TRUE,
                      report |-> OutputData(results, differences', totalTests', passedTests')]
                ELSE saved
          /\ writeFailed' = ~writeOk
          /\ Exit(ExitAfterSave(writeOk))
    /\ UNCHANGED <<argv, file, exists, testCases, i, cur, ret, openPipes, unreaped,
                   nRuns, results, keepRaw, captured>>

Next ==
    \/ ParseFlags
    \/ LoadTestCases
    \/ NewShellTester
    \/ NextTestCase
    \/ StdinPipe
    \/ StdinPipeFails
    \/ Start
    \/ StartFails
    \/ Write
    \/ WriteFails
    \/ Close
    \/ Wait
    \/ ReportOnly
    \/ ReportAndSave

Spec == Init /\ [][Next]_vars

SpecStreams == InitStreams /\ [][Next]_vars

----------------------------------------------------------------------------
\* Properties.

\* The command line parsed (neither a bad flag nor -h).
FlagsParsed == argv \in {"default", "output"}

\* loadTestCases was called and returned an error.
LoadFailed == FlagsParsed /\ file.status # "ok"

\* NewShellTester was called and returned an error.
ShellNotFound == FlagsParsed /\ file.status = "ok" /\ \E sh \in Shells : ~exists[sh]

\* main ran to the end of its report.
Completed ==
    /\ pc = "exited"
    /\ FlagsParsed
    /\ file.status = "ok"
    /\ \A sh \in Shells : exists[sh]

\* The commands of the test cases compareOutput has processed so far.
Processed == {testCases[k].Command : k \in 1..(i - 1)}

\* The last processed test case whose command is c.
LastWith(c) ==
    testCases[CHOOSE k \in 1..(i - 1) :
                 /\ testCases[k].Command = c
                 /\ \A j \in (k + 1)..(i - 1) : testCases[j].Command # c]

\* The status block main printed for command c.
StatusLine(c) == CHOOSE l \in console.status : l.Command = c

\* a and b are the same text between leading and trailing white space.
IsSpaces(s) == \A x \in 1..Len(s) : s[x] \in Whitespace

DiffersOnlyInPadding(a, b) ==
    \E la \in 0..Len(a), lb \in 0..Len(b) :
        \E ra \in la..Len(a), rb \in lb..Len(b) :
            /\ IsSpaces(SubSeq(a, 1, la))
            /\ IsSpaces(SubSeq(a, ra + 1, Len(a)))
            /\ IsSpaces(SubSeq(b, 1, lb))
            /\ IsSpaces(SubSeq(b, rb + 1, Len(b)))
            /\ SubSeq(a, la + 1, ra) = SubSeq(b, lb + 1, rb)

\* C1: in a completed run a result is reported PASS iff its outputMatch,
\* errorMatch and returnCodeMatch are all true, and the passed count of the
\* summary is the number of results with all three true; the expected-*
\* flags play no part.
C1_PassAggregation ==
    Completed =>
        LET good == {c \in DOMAIN results :
                        /\ results[c].OutputMatch
                        /\ results[c].ErrorMatch
                        /\ results[c].ReturnCodeMatch}
        IN  /\ passedTests = Cardinality(good)
            /\ console.summary = <<Cardinality(good), Cardinality(DOMAIN results)>>
            /\ \A c \in DOMAIN results :
                  /\ \E l \in console.status : l.Command = c
                  /\ (StatusLine(c).Status = "PASS") <=> (c \in good)
                  /\ StatusLine(c).Status \in {"PASS", "FAIL"}

\* A result that matches the reference shell but misses its own stated
\* expectation, and is counted as passed.
C1_Witness ==
    /\ Completed
    /\ passedTests = 1
    /\ \E c \in DOMAIN results :
          /\ results[c].OutputMatch /\ results[c].ErrorMatch /\ results[c].ReturnCodeMatch
          /\ ~results[c].ExpectedOutputMatch

\* C2: the result set holds exactly one entry per distinct command processed,
\* and the entry of a command carries the description and the match values
\* of the last processed test case with that command.
C2_LastProcessedWins ==
    /\ DOMAIN results = Processed
    /\ Cardinality(DOMAIN results) = Cardinality(Processed)
    /\ \A c \in DOMAIN results :
          LET tc == LastWith(c)
              r == results[c]
          IN  /\ r.Description = tc.Description
              /\ r.ExpectedOutputMatch
                    = (tc.ExpectedOutput = <<>> \/ r.MinishellOutput = tc.ExpectedOutput)
              /\ r.ExpectedErrorMatch
                    = (tc.ExpectedError = <<>> \/ r.MinishellError = tc.ExpectedError)
              /\ r.ExpectedCodeMatch
                    = (tc.ExpectedCode = 0 \/ r.MinishellReturnCode = tc.ExpectedCode)
              /\ r.OutputMatch = (r.BashOutput = r.MinishellOutput)
              /\ r.ErrorMatch = (r.BashError = r.MinishellError)
              /\ r.ReturnCodeMatch = (r.BashReturnCode = r.MinishellReturnCode)

\* Two test cases with one command and different descriptions, both processed.
C2_Witness ==
    /\ Completed
    /\ Len(testCases) = 2
    /\ testCases[1].Command = testCases[2].Command
    /\ testCases[1].Description # testCases[2].Description
    /\ Cardinality(DOMAIN results) = 1
    /\ results[testCases[1].Command].Description = testCases[2].Description

\* C3: a test case that states no expectation has the three expected-* flags
\* true whatever the implementation shell produced; a stated expectation's
\* flag is true exactly when the implementation's value equals it.
C3_ExpectedDefaults ==
    \A c \in DOMAIN results :
        LET tc == LastWith(c)
            r == results[c]
        IN  /\ (tc.ExpectedOutput = <<>> /\ tc.ExpectedError = <<>> /\ tc.ExpectedCode = 0)
                  => (r.ExpectedOutputMatch /\ r.ExpectedErrorMatch /\ r.ExpectedCodeMatch)
            /\ tc.ExpectedOutput # <<>>
                  => (r.ExpectedOutputMatch <=> r.MinishellOutput = tc.ExpectedOutput)
            /\ tc.ExpectedError # <<>>
                  => (r.ExpectedErrorMatch <=> r.MinishellError = tc.ExpectedError)
            /\ tc.ExpectedCode # 0
                  => (r.ExpectedCodeMatch <=> r.MinishellReturnCode = tc.ExpectedCode)

\* A test case without expectations whose implementation run printed output.
C3_Witness ==
    \E c \in DOMAIN results :
        /\ LastWith(c).ExpectedOutput = <<>>
        /\ LastWith(c).ExpectedError = <<>>
        /\ LastWith(c).ExpectedCode = 0
        /\ results[c].MinishellOutput # <<>>
        /\ results[c].ExpectedOutputMatch

\* A step of runCommand that takes one of its three error returns.
FailureStep ==
    \/ pc = "pipe" /\ pc' # "start"
    \/ pc = "start" /\ pc' # "write"
    \/ pc = "write" /\ pc' # "close"

\* A failed run yields ("", the error message, 1) and the loop goes on.
FailureReturns ==
    FailureStep =>
        IF cur = "bash"
        THEN /\ ret'["bash"].out = <<>>
             /\ ret'["bash"].err \in ErrMsgs
             /\ ret'["bash"].rc = 1
             /\ pc' = "pipe" /\ cur' = "minishell" /\ i' = i
        ELSE LET c == testCases[i].Command
             IN  /\ c \in DOMAIN results'
                 /\ results'[c].MinishellOutput = <<>>
                 /\ results'[c].MinishellError \in ErrMsgs
                 /\ results'[c].MinishellReturnCode = 1
                 /\ results'[c].BashOutput = ret["bash"].out
                 /\ results'[c].BashError = ret["bash"].err
                 /\ results'[c].BashReturnCode = ret["bash"].rc
                 /\ pc' = "loop" /\ i' = i + 1

\* Once the shells are found, main exits only after every test case was run
\* against both shells and has its result.
SuiteRunsToEnd ==
    (pc = "exited" /\ FlagsParsed /\ ~LoadFailed /\ ~ShellNotFound) =>
        /\ i = Len(testCases) + 1
        /\ nRuns = 2 * Len(testCases)
        /\ DOMAIN results = {testCases[k].Command : k \in 1..Len(testCases)}

\* C4: a failed StdinPipe, Start or Write makes runCommand return empty
\* stdout, the error message and exit code 1, and the suite is not aborted:
\* the test cases after the failing one are run and recorded.
C4_FailureIsRecorded == []SuiteRunsToEnd /\ [][FailureReturns]_vars

\* The reference run of the first of two test cases failed, and the second
\* test case has its result.
C4_Witness ==
    /\ Completed
    /\ Len(testCases) = 2
    /\ testCases[1].Command # testCases[2].Command
    /\ results[testCases[1].Command].BashReturnCode = 1
    /\ results[testCases[1].Command].BashError \in ErrMsgs
    /\ results[testCases[1].Command].BashOutput = <<>>
    /\ testCases[2].Command \in DOMAIN results

\* C5 as stated: the exit status is non-zero exactly when loading fails, a
\* shell is not found or the report cannot be written.
C5_ExitStatusAsStated ==
    pc = "exited" =>
        (exitStatus # 0 <=> (LoadFailed \/ ShellNotFound \/ writeFailed))

\* C5 as amended: the exit status is non-zero exactly when the command line
\* cannot be parsed, loading fails, a shell is not found or the report cannot
\* be written; it is 0 otherwise, whatever the number of failed test cases.
C5_ExitStatus ==
    pc = "exited" =>
        /\ exitStatus # 0
              <=> (argv = "invalid" \/ LoadFailed \/ ShellNotFound \/ writeFailed)
        /\ argv = "invalid" => exitStatus = 2
        /\ (LoadFailed \/ ShellNotFound \/ writeFailed) => exitStatus = 1

\* Two test cases, both failed, and the harness exits 0.
C5_Witness ==
    /\ pc = "exited"
    /\ exitStatus = 0
    /\ totalTests = 2
    /\ passedTests = 0

C7_EverySubprocessAwaited ==
    pc \in {"pipe", "loop", "exited"} => (unreaped = 0 /\ openPipes = 0)

\* The results whose streams agree and whose exit codes differ.
ExitCodeOnlyMismatches ==
    {c \in DOMAIN results :
        /\ results[c].BashOutput = results[c].MinishellOutput
        /\ results[c].BashError = results[c].MinishellError
        /\ results[c].BashReturnCode # results[c].MinishellReturnCode}

\* C8 as stated: such a test has returnCodeMatch false, is reported FAIL, is
\* among the mismatching tests, and the report holds no diff block for it.
C8_DiffOmittedAsStated ==
    Completed =>
        \A c \in ExitCodeOnlyMismatches :
            /\ ~results[c].ReturnCodeMatch
            /\ StatusLine(c).Status = "FAIL"
            /\ c \in DOMAIN differences
            /\ ~\E b \in console.blocks : b.Command = c

\* C8 as amended: such a test has returnCodeMatch false, is reported FAIL, is
\* among the mismatching tests, and the detailed-differences section is
\* printed with a block for it whose diff is the common stdout, unmarked.
C8_DiffPrintedUnmarked ==
    Completed =>
        \A c \in ExitCodeOnlyMismatches :
            /\ ~results[c].ReturnCodeMatch
            /\ StatusLine(c).Status = "FAIL"
            /\ c \in DOMAIN differences
            /\ differences[c] = results[c].BashOutput
            /\ console.diffHeader
            /\ \E b \in console.blocks :
                  /\ b.Command = c
                  /\ b.Test = results[c].Description
                  /\ b.Diff = results[c].BashOutput

\* The reference shell exited 3 and the implementation 0, with equal streams.
C8_Witness ==
    /\ Completed
    /\ \E c \in ExitCodeOnlyMismatches :
          /\ results[c].BashReturnCode = 3
          /\ results[c].MinishellReturnCode = 0

\* C9: when both runs of a test case captured their streams, outputMatch is
\* true exactly when the raw stdout streams are the same text between
\* leading and trailing white space, and errorMatch likewise for stderr.
C9_TrimmedComparison ==
    (i = 2 /\ captured["bash"].taken /\ captured["minishell"].taken) =>
        LET r == results[testCases[1].Command]
        IN  /\ r.OutputMatch
                  <=> DiffersOnlyInPadding(captured["bash"].out, captured["minishell"].out)
            /\ r.ErrorMatch
                  <=> DiffersOnlyInPadding(captured["bash"].err, captured["minishell"].err)

\* Raw stdout streams that differ, but only in surrounding white space.
C9_Witness ==
    /\ i = 2
    /\ captured["bash"].taken /\ captured["minishell"].taken
    /\ captured["bash"].out = <<"h">>
    /\ captured["minishell"].out = <<" ", "h", "\n">>
    /\ results[testCases[1].Command].OutputMatch

\* C10: in a completed run the differences are keyed by exactly the commands
\* whose result is not passed, their number is the failed count,
\* total = passed + failed with failed >= 0, and total is the number of results;
\* a written report carries the same figures.
C10_ReportConsistent ==
    Completed =>
        LET bad == {c \in DOMAIN results :
                       \/ ~results[c].OutputMatch
                       \/ ~results[c].ErrorMatch
                       \/ ~results[c].ReturnCodeMatch}
            failed == totalTests - passedTests
        IN  /\ DOMAIN differences = bad
            /\ Cardinality(DOMAIN differences) = failed
            /\ failed >= 0
            /\ totalTests = Cardinality(DOMAIN results)
            /\ saved.written =>
                  /\ saved.report.Summary.TotalTests = totalTests
                  /\ saved.report.Summary.PassedTests = passedTests
                  /\ saved.report.Summary.FailedTests = failed
                  /\ saved.report.Summary.TotalTests
                        = saved.report.Summary.PassedTests + saved.report.Summary.FailedTests
                  /\ saved.report.Results = results
                  /\ DOMAIN saved.report.Differences = bad

\* A written report with one passed and one failed test, the failed one
\* differing in stderr only.
C10_Witness ==
    /\ Completed
    /\ saved.written
    /\ totalTests = 2
    /\ passedTests = 1
    /\ \E c \in DOMAIN results :
          /\ results[c].OutputMatch
          /\ ~results[c].ErrorMatch
          /\ results[c].ReturnCodeMatch

====
